---- MODULE Spec2Model ----
(***************************************************************************)
(* Model of scripts/generate_index_and_sitemap.py: the static-site index,  *)
(* sitemap and RSS generator.  Text is modelled as sequences of character  *)
(* codes (ASCII), so that parsing and string comparison are computed the   *)
(* way Python computes them.                                               *)
(***************************************************************************)
EXTENDS Integers, Sequences, FiniteSets, TLC

(***************************************************************************)
(* Bounds of the model.                                                    *)
(***************************************************************************)
\* at most this many entries in a hand-built posts/ directory
MaxDirs == 2
\* the generated (bulk) posts/ directories hold up to this many posts
MaxPosts == 51
\* directories of at most this size are listed in every order
MaxShuffle == 3
\* consecutive runs of main() in one behaviour
MaxRuns == 2
\* I/O faults (failed remove, failed write) in one behaviour
MaxFaults == 1

(***************************************************************************)
(* Program constants.                                                      *)
(***************************************************************************)
PER_PAGE == 20
RSS_LIMIT == 50
SITE_URL == "https://comparellms.in"

(***************************************************************************)
(* Text: sequences of character codes.                                     *)
(***************************************************************************)
IsDigit(c) == c >= 48 /\ c <= 57
IsSpace(c) == c \in {9, 10, 11, 12, 13, 32}

Range(s) == {s[i] : i \in DOMAIN s}

\* Python's str comparison a < b: by code point, a proper prefix is smaller.
RECURSIVE StrLess(_, _)
StrLess(a, b) ==
    IF b = <<>> THEN FALSE
    ELSE IF a = <<>> THEN TRUE
    ELSE IF Head(a) # Head(b) THEN Head(a) < Head(b)
    ELSE StrLess(Tail(a), Tail(b))

\* str.strip(): leading and trailing whitespace removed.
RECURSIVE LStrip(_)
LStrip(s) == IF s # <<>> /\ IsSpace(Head(s)) THEN LStrip(Tail(s)) ELSE s

RECURSIVE RStrip(_)
RStrip(s) ==
    IF s # <<>> /\ IsSpace(s[Len(s)]) THEN RStrip(SubSeq(s, 1, Len(s) - 1)) ELSE s

Strip(s) == RStrip(LStrip(s))

\* str.split(','): the fields between commas (code 44), empty ones kept.
RECURSIVE SplitComma(_, _)
SplitComma(s, cur) ==
    IF s = <<>> THEN <<cur>>
    ELSE IF Head(s) = 44 THEN <<cur>> \o SplitComma(Tail(s), <<>>)
    ELSE SplitComma(Tail(s), Append(cur, Head(s)))

\* [t.strip() for t in tags_raw.split(',') if t.strip()]
RECURSIVE StripNonEmpty(_)
StripNonEmpty(fields) ==
    IF fields = <<>> THEN <<>>
    ELSE IF Strip(Head(fields)) # <<>>
         THEN <<Strip(Head(fields))>> \o StripNonEmpty(Tail(fields))
         ELSE StripNonEmpty(Tail(fields))

ParseTags(tags_raw) == StripNonEmpty(SplitComma(tags_raw, <<>>))

\* str(n) for n >= 0
RECURSIVE DecStr(_)
DecStr(n) == IF n < 10 THEN <<48 + n>> ELSE Append(DecStr(n \div 10), 48 + (n % 10))

\* int(s) of a string of digits
RECURSIVE DecVal(_)
DecVal(s) == IF s = <<>> THEN 0 ELSE 10 * DecVal(SubSeq(s, 1, Len(s) - 1)) + (s[Len(s)] - 48)

(***************************************************************************)
(* datetime.strptime(date, '%Y-%m-%d')                                     *)
(***************************************************************************)
\* the fields between dashes (code 45)
RECURSIVE SplitDash(_, _)
SplitDash(s, cur) ==
    IF s = <<>> THEN <<cur>>
    ELSE IF Head(s) = 45 THEN <<cur>> \o SplitDash(Tail(s), <<>>)
    ELSE SplitDash(Tail(s), Append(cur, Head(s)))

AllDigits(s) == \A i \in DOMAIN s : IsDigit(s[i])

IsLeap(y) == (y % 4 = 0 /\ y % 100 # 0) \/ y % 400 = 0

DaysInMonth(y, m) ==
    IF m = 2 THEN (IF IsLeap(y) THEN 29 ELSE 28)
    ELSE IF m \in {4, 6, 9, 11} THEN 30 ELSE 31

\* %Y is exactly four digits; %m is 1[0-2]|0[1-9]|[1-9]; %d is
\* 3[01]|[12]\d|0[1-9]|[1-9]: one or two digits, zero padding optional.
\* The result is <<y, m, d>>, or <<>> where strptime raises ValueError.
Strptime(s) ==
    LET f == SplitDash(s, <<>>) IN
    IF Len(f) # 3 THEN <<>>
    ELSE IF ~(AllDigits(f[1]) /\ AllDigits(f[2]) /\ AllDigits(f[3])) THEN <<>>
    ELSE IF Len(f[1]) # 4 \/ Len(f[2]) \notin {1, 2} \/ Len(f[3]) \notin {1, 2} THEN <<>>
    ELSE LET y == DecVal(f[1])
             m == DecVal(f[2])
             d == DecVal(f[3])
         IN IF y < 1 \/ m < 1 \/ m > 12 \/ d < 1 \/ d > 31 THEN <<>>
            ELSE IF d > DaysInMonth(y, m) THEN <<>>
            ELSE <<y, m, d>>

(***************************************************************************)
(* read_meta_from_html.  A markup file is modelled as the sequence of its  *)
(* <meta ...> declarations; each gives the order of its two attributes     *)
(* ("nc": name= then content=, "cn": content= then name=), the text        *)
(* between the two attributes, and the two quoted values.                  *)
(***************************************************************************)
EmptyDict == [k \in {} |-> <<>>]

Put(d, k, v) == [x \in DOMAIN d \cup {k} |-> IF x = k THEN v ELSE d[x]]

\* str.lower() on the attribute names of the model
Lower(name) ==
    CASE name = "Post-Date" -> "post-date"
      [] name = "POST-DATE" -> "post-date"
      [] name = "Post-Title" -> "post-title"
      [] OTHER -> name

\* META_RE: <meta\s+name=["']([^"']+)["']\s+content=["']([^"']*)["']
MetaReMatches(t) ==
    /\ t.order = "nc"
    /\ t.name # ""
    /\ t.sep # <<>>
    /\ \A i \in DOMAIN t.sep : IsSpace(t.sep[i])

\* META_RE_ALT: <meta\s+content=["']([^"']*)["']s+name=["']([^"']+)["']
\* with re.I: between the attributes it wants one or more letters s (115) or
\* S (83), not whitespace.
MetaReAltMatches(t) ==
    /\ t.order = "cn"
    /\ t.name # ""
    /\ t.sep # <<>>
    /\ \A i \in DOMAIN t.sep : t.sep[i] \in {115, 83}

\* for match in META_RE.finditer(html): data[name] = content
RECURSIVE PrimaryPass(_, _)
PrimaryPass(html, data) ==
    IF html = <<>> THEN data
    ELSE LET t == Head(html) IN
         PrimaryPass(Tail(html),
                     IF MetaReMatches(t)
                     THEN Put(data, Lower(t.name), Strip(t.content))
                     ELSE data)

\* for match in META_RE_ALT.finditer(html): if name not in data: data[name] = content
RECURSIVE AltPass(_, _)
AltPass(html, data) ==
    IF html = <<>> THEN data
    ELSE LET t == Head(html) IN
         AltPass(Tail(html),
                 IF MetaReAltMatches(t) /\ Lower(t.name) \notin DOMAIN data
                 THEN Put(data, Lower(t.name), Strip(t.content))
                 ELSE data)

\* The mapping returned, and whether the read raised (an ERROR line is printed).
read_meta_from_html(entry) ==
    IF ~entry.readable
    THEN [data |-> EmptyDict, error |-> TRUE]
    ELSE [data |-> AltPass(entry.html, PrimaryPass(entry.html, EmptyDict)),
          error |-> FALSE]

(***************************************************************************)
(* gather_posts                                                            *)
(***************************************************************************)
\* meta.get(k) or alt
GetOr(meta, k, alt) == IF k \in DOMAIN meta /\ meta[k] # <<>> THEN meta[k] ELSE alt

LogLine(level, msg, arg) == [level |-> level, msg |-> msg, arg |-> arg]

\* f"/posts/{slug}/"
PostUrl(slug) == <<"/posts/", slug, "/">>

PostRecord(name, meta) ==
    LET slug == GetOr(meta, "post-slug", name) IN
    [slug |-> slug,
     url |-> PostUrl(slug),
     title |-> GetOr(meta, "post-title", GetOr(meta, "title", slug)),
     date |-> GetOr(meta, "post-date", <<>>),
     updated |-> GetOr(meta, "post-updated", <<>>),
     summary |-> GetOr(meta, "post-summary", GetOr(meta, "description", <<>>)),
     thumb |-> GetOr(meta, "post-thumb", <<>>),
     tags |-> ParseTags(GetOr(meta, "post-tags", <<>>))]

\* GatherOne without the date-format check (lines 111-116 left out)
GatherOneNoFormatCheck(entry) ==
    IF ~entry.isdir THEN [posts |-> <<>>, log |-> <<>>, meta |-> <<>>]
    ELSE IF ~entry.hasindex
    THEN [posts |-> <<>>,
          log |-> <<LogLine("WARN", "No index.html found", entry.name)>>,
          meta |-> <<>>]
    ELSE LET r == read_meta_from_html(entry)
             log1 == IF r.error
                     THEN <<LogLine("ERROR", "Could not read", entry.name)>>
                     ELSE <<>>
             p == PostRecord(entry.name, r.data)
         IN IF p.date = <<>>
            THEN [posts |-> <<>>,
                  log |-> Append(log1, LogLine("WARN", "missing post-date", p.slug)),
                  meta |-> <<r.data>>]
            ELSE [posts |-> <<p>>, log |-> log1, meta |-> <<r.data>>]

\* One iteration of the loop over os.listdir(POSTS_DIR): the posts appended,
\* the lines printed and the mapping read (the iterations do not read what
\* earlier ones appended).
GatherOne(entry) ==
    IF ~entry.isdir THEN [posts |-> <<>>, log |-> <<>>, meta |-> <<>>]
    ELSE IF ~entry.hasindex
    THEN [posts |-> <<>>,
          log |-> <<LogLine("WARN", "No index.html found", entry.name)>>,
          meta |-> <<>>]
    ELSE LET r == read_meta_from_html(entry)
             log1 == IF r.error
                     THEN <<LogLine("ERROR", "Could not read", entry.name)>>
                     ELSE <<>>
             p == PostRecord(entry.name, r.data)
         IN IF p.date = <<>>
            THEN [posts |-> <<>>,
                  log |-> Append(log1, LogLine("WARN", "missing post-date", p.slug)),
                  meta |-> <<r.data>>]
            ELSE IF Strptime(p.date) = <<>>
            THEN [posts |-> <<>>,
                  log |-> Append(log1, LogLine("WARN", "invalid date format", p.slug)),
                  meta |-> <<r.data>>]
            ELSE [posts |-> <<p>>, log |-> log1, meta |-> <<r.data>>]

\* The iterations lo..hi of the loop, in order (split in halves to keep the
\* evaluation shallow): the posts appended, the lines printed, and by entry
\* name the mapping read.
RECURSIVE GatherLoop(_, _, _)
GatherLoop(listing, lo, hi) ==
    IF lo > hi THEN [posts |-> <<>>, log |-> <<>>, metas |-> EmptyDict]
    ELSE IF lo = hi
    THEN LET g == GatherOne(listing[lo]) IN
         [posts |-> g.posts,
          log |-> g.log,
          metas |-> IF g.meta = <<>> THEN EmptyDict
                    ELSE [nm \in {listing[lo].name} |-> g.meta[1]]]
    ELSE LET mid == (lo + hi) \div 2
             l == GatherLoop(listing, lo, mid)
             r == GatherLoop(listing, mid + 1, hi)
         IN [posts |-> l.posts \o r.posts,
             log |-> l.log \o r.log,
             metas |-> l.metas @@ r.metas]

\* posts.sort(key=lambda p: p['date'], reverse=True): the keys are compared
\* as strings, the later one first; the sort is stable (of two equal keys the
\* one that came first stays first), also with reverse=True.  SortSeq is
\* an insertion sort that moves an element before another only where the
\* comparison holds, so it is stable for a strict comparison.
DateAfter(p, q) == StrLess(q.date, p.date)

SortByDateDesc(ps) == SortSeq(ps, DateAfter)

\* The list returned, the lines printed and the mappings read, for one
\* listing of the directory.
gather_posts(exists_, listing) ==
    IF ~exists_
    THEN [posts |-> <<>>,
          log |-> <<LogLine("WARN", "Posts directory not found", <<>>)>>,
          metas |-> EmptyDict]
    ELSE LET acc == GatherLoop(listing, 1, Len(listing))
             sorted == SortByDateDesc(acc.posts)
         IN [posts |-> sorted,
             log |-> Append(acc.log, LogLine("INFO", "Found valid posts", DecStr(Len(sorted)))),
             metas |-> acc.metas]

(***************************************************************************)
(* write_paginated_indexes                                                 *)
(***************************************************************************)
Max(a, b) == IF a >= b THEN a ELSE b
Min(a, b) == IF a <= b THEN a ELSE b

\* TotalPages rounding down: max(1, total // PER_PAGE)
TotalPagesRoundDown(total) == Max(1, total \div PER_PAGE)

\* TotalPages without the floor of one page
TotalPagesNoFloor(total) == (total + PER_PAGE - 1) \div PER_PAGE

\* max(1, (total + PER_PAGE - 1) // PER_PAGE)
TotalPages(total) == Max(1, (total + PER_PAGE - 1) \div PER_PAGE)

\* posts[start:end]: offsets start (inclusive) to end (exclusive), clipped
Slice(ps, start, end) == SubSeq(ps, Min(start, Len(ps)) + 1, Min(end, Len(ps)))

\* PageStart counting pages from 0
PageStartOffByOne(pg) == pg * PER_PAGE

PageStart(pg) == (pg - 1) * PER_PAGE

PageOutput(ps, pg) ==
    [page |-> pg,
     per_page |-> PER_PAGE,
     total_posts |-> Len(ps),
     total_pages |-> TotalPages(Len(ps)),
     posts |-> Slice(ps, PageStart(pg), PageStart(pg) + PER_PAGE)]

MainOutput(ps) ==
    [page |-> 1,
     per_page |-> PER_PAGE,
     total_posts |-> Len(ps),
     total_pages |-> TotalPages(Len(ps))]

(***************************************************************************)
(* write_sitemap                                                           *)
(***************************************************************************)
\* '2025-01-01'
StaticLastmod == <<50, 48, 50, 53, 45, 48, 49, 45, 48, 49>>

\* SITE_URL.rstrip('/') + path; a path is <<prefix, slug, suffix>>
Loc(path) == <<SITE_URL>> \o path

UrlEntry(path, lastmod, freq, priority) ==
    [loc |-> Loc(path), lastmod |-> lastmod, changefreq |-> freq, priority |-> priority]

static_pages ==
    << UrlEntry(<<"/", <<>>, "">>, StaticLastmod, "daily", "1.0"),
       UrlEntry(<<"/blog/", <<>>, "">>, StaticLastmod, "daily", "0.9"),
       UrlEntry(<<"/about.html", <<>>, "">>, StaticLastmod, "monthly", "0.5"),
       UrlEntry(<<"/contact.html", <<>>, "">>, StaticLastmod, "monthly", "0.5"),
       UrlEntry(<<"/ai-content-policy.html", <<>>, "">>, StaticLastmod, "monthly", "0.5") >>

\* lastmod is post.get('updated') or post['date']
PostUrlEntry(p) ==
    UrlEntry(p.url, IF p.updated # <<>> THEN p.updated ELSE p.date, "monthly", "0.7")

SitemapOutput(ps) == static_pages \o [i \in 1..Len(ps) |-> PostUrlEntry(ps[i])]

(***************************************************************************)
(* format_rss_date and write_rss                                           *)
(***************************************************************************)
DaysBeforeMonth(y, m) ==
    LET RECURSIVE Acc(_)
        Acc(k) == IF k = 0 THEN 0 ELSE Acc(k - 1) + DaysInMonth(y, k)
    IN Acc(m - 1)

\* date.toordinal(): 0001-01-01 is day 1
ToOrdinal(y, m, d) ==
    365 * (y - 1) + ((y - 1) \div 4) - ((y - 1) \div 100) + ((y - 1) \div 400)
    + DaysBeforeMonth(y, m) + d

Pad2(n) == IF n < 10 THEN <<48>> \o DecStr(n) ELSE DecStr(n)

\* dt.strftime('%a, %d %b %Y 00:00:00 GMT'); the string is passed through
\* unchanged (raw) where strptime raises
format_rss_date(date_str) ==
    LET t == Strptime(date_str) IN
    IF t = <<>>
    THEN [raw |-> date_str, a |-> "", d |-> <<>>, b |-> "", Y |-> <<>>]
    ELSE [raw |-> <<>>,
          a |-> <<"Mon", "Tue", "Wed", "Thu", "Fri", "Sat", "Sun">>
                    [((ToOrdinal(t[1], t[2], t[3]) + 6) % 7) + 1],
          d |-> Pad2(t[3]),
          b |-> <<"Jan", "Feb", "Mar", "Apr", "May", "Jun",
                  "Jul", "Aug", "Sep", "Oct", "Nov", "Dec">>[t[2]],
          Y |-> DecStr(t[1])]

RssItem(p) ==
    [title |-> p.title,
     link |-> Loc(p.url),
     guid |-> Loc(p.url),
     pubDate |-> format_rss_date(p.date),
     description |-> p.summary,
     categories |-> p.tags]

\* RssItems without the slice: for post in posts
RssItemsAll(ps) == [i \in 1..Len(ps) |-> RssItem(ps[i])]

\* for post in posts[:50]
RssItems(ps) == LET first == Slice(ps, 0, RSS_LIMIT) IN [i \in 1..Len(first) |-> RssItem(first[i])]

RssOutput(ps, now) == [lastBuildDate |-> now, items |-> RssItems(ps)]

(***************************************************************************)
(* The inputs: posts/ directories.                                         *)
(***************************************************************************)
Tag(order, sep, name, content) ==
    [order |-> order, sep |-> sep, name |-> name, content |-> content]

Entry(name, isdir, hasindex, readable, html) ==
    [name |-> name, isdir |-> isdir, hasindex |-> hasindex, readable |-> readable,
     html |-> html]

Post(name, html) == Entry(name, TRUE, TRUE, TRUE, html)

\* "2025-06-01", "2025-10-01", "2025-11-02", "2025-9-01", "2025-13-01"
DateJun == <<50, 48, 50, 53, 45, 48, 54, 45, 48, 49>>
DateOct == <<50, 48, 50, 53, 45, 49, 48, 45, 48, 49>>
DateNov == <<50, 48, 50, 53, 45, 49, 49, 45, 48, 50>>
DateSepUnpadded == <<50, 48, 50, 53, 45, 57, 45, 48, 49>>
DateBadMonth == <<50, 48, 50, 53, 45, 49, 51, 45, 48, 49>>

\* The entries a hand-built directory is made of, each under its own name
\* ("a" to "k").
\* name= then content=, with a title "Foo" and tags "a, b"
CandA ==
    Post(<<97>>, << Tag("nc", <<32>>, "post-date", DateJun),
                    Tag("nc", <<32>>, "Post-Title", <<70, 111, 111>>),
                    Tag("nc", <<32>>, "post-tags", <<97, 44, 32, 98>>) >>)
\* the same date again, the attribute name in capitals
CandB == Post(<<98>>, << Tag("nc", <<32, 32>>, "Post-Date", DateJun) >>)
\* a later date, and an updated date
CandC ==
    Post(<<99>>, << Tag("nc", <<32>>, "post-date", DateOct),
                    Tag("nc", <<32>>, "post-updated", DateNov) >>)
\* a month without its zero
CandD == Post(<<100>>, << Tag("nc", <<32>>, "post-date", DateSepUnpadded) >>)
\* no such month
CandE == Post(<<101>>, << Tag("nc", <<32>>, "post-date", DateBadMonth) >>)
\* content= then name=, a blank between them
CandF == Post(<<102>>, << Tag("cn", <<32>>, "post-date", DateJun) >>)
\* content= then name= with the letter s between them, and name= then
\* content= for the same name
CandG ==
    Post(<<103>>, << Tag("cn", <<115>>, "post-date", DateOct),
                     Tag("nc", <<32>>, "post-date", DateJun) >>)
\* index.html cannot be read
CandH == Entry(<<104>>, TRUE, TRUE, FALSE, <<>>)
\* no index.html
CandI == Entry(<<105>>, TRUE, FALSE, FALSE, <<>>)
\* a plain file
CandJ == Entry(<<106>>, FALSE, FALSE, FALSE, <<>>)
\* no post-date declared
CandK == Post(<<107>>, << Tag("nc", <<32>>, "title", <<70, 111, 111>>) >>)

CandidateList == <<CandA, CandB, CandC, CandD, CandE, CandF, CandG, CandH, CandI, CandJ, CandK>>

\* The k-th smallest element of a set of numbers
Kth(I, k) == CHOOSE i \in I : Cardinality({j \in I : j <= i}) = k

\* A directory is the sequence of its entries (in the order they were made).
HandDirs ==
    { [k \in 1..Cardinality(I) |-> CandidateList[Kth(I, k)]] :
        I \in {J \in SUBSET (1..Len(CandidateList)) : Cardinality(J) <= MaxDirs} }

\* Generated posts "1", "2", ...: dates 2025-06-01 to 2025-06-28, repeating
BulkEntry(k) ==
    Post(DecStr(k),
         << Tag("nc", <<32>>, "post-date",
                <<50, 48, 50, 53, 45, 48, 54, 45>> \o Pad2((k % 28) + 1)) >>)

BulkDir(n) == [k \in 1..n |-> BulkEntry(k)]

\* The sizes at and next to a page boundary, and from the RSS limit on
BulkSizes ==
    {n \in 0..MaxPosts : n % PER_PAGE \in {0, 1, PER_PAGE - 1} \/ n >= RSS_LIMIT}

BulkDirs == {BulkDir(n) : n \in BulkSizes}

(***************************************************************************)
(* os.listdir: the entries in arbitrary order.                             *)
(***************************************************************************)
RECURSIVE Perms(_)
Perms(S) ==
    IF S = {} THEN {<<>>}
    ELSE UNION {{<<e>> \o q : q \in Perms(S \ {e})} : e \in S}

Reverse(q) == [i \in 1..Len(q) |-> q[Len(q) + 1 - i]]

\* Every order of a small directory; of a large one, the order the entries
\* were made in and its reverse.
Listings(d) ==
    IF Len(d) <= MaxShuffle THEN Perms(Range(d))
    ELSE {d, Reverse(d)}

(***************************************************************************)
(* State.                                                                  *)
(***************************************************************************)
VARIABLES
    exists,     \* whether the posts/ directory exists
    dir,        \* the entries of posts/
    run,        \* the number of the run of main() in progress
    pc,         \* where main() stands: "start", "cleanup", "pages", "sitemap",
                \* "rss", "done", or "aborted" (an unhandled exception)
    posts,      \* main's list of posts
    metas,      \* by entry name, the mapping read_meta_from_html returned
    log,        \* the lines printed by this run
    page,       \* the loop variable of write_paginated_indexes
    pages,      \* posts-index-page-N.json, by N
    pointer,    \* posts-index.json: <<>> or <<file>>
    sitemap,    \* sitemap.xml: <<>> or <<file>>
    rss,        \* rss.xml: <<>> or <<file>>
    faults,     \* I/O faults so far
    prev        \* the run before: its input and what it left, and the faults
                \* counted when it ended (history)

vars == <<exists, dir, run, pc, posts, metas, log, page, pages, pointer, sitemap, rss,
          faults, prev>>

\* A file: the run that wrote it (history), whether the write completed,
\* and what was written.
File(data) == [by |-> run, ok |-> TRUE, data |-> data]

\* What a write that raised after open() leaves: a truncated file.
Truncated(empty) == [by |-> run, ok |-> FALSE, data |-> empty]

NoPrev ==
    [done |-> FALSE, exists |-> FALSE, dir |-> <<>>, pages |-> {}, pointer |-> <<>>,
     sitemap |-> <<>>, faults |-> 0]

Init ==
    /\ \/ exists = TRUE /\ dir \in HandDirs \cup BulkDirs
       \/ exists = FALSE /\ dir = <<>>
    /\ run = 1
    /\ pc = "start"
    /\ posts = <<>>
    /\ metas = EmptyDict
    /\ log = <<>>
    /\ page = 1
    /\ pages = EmptyDict
    /\ pointer = <<>>
    /\ sitemap = <<>>
    /\ rss = <<>>
    /\ faults = 0
    /\ prev = NoPrev

\* The outcomes of opening and writing a file: written, open() raised,
\* the write raised after open() truncated the file.
Outcomes == IF faults < MaxFaults THEN {"ok", "open", "write"} ELSE {"ok"}

(***************************************************************************)
(* main()                                                                  *)
(***************************************************************************)
\* posts = gather_posts(); if not posts: print("WARN: No posts found...")
Gather ==
    /\ pc = "start"
    /\ \E listing \in (IF exists THEN Listings(dir) ELSE {<<>>}) :
         LET r == gather_posts(exists, listing) IN
         /\ posts' = r.posts
         /\ metas' = r.metas
         /\ log' = IF r.posts = <<>>
                   THEN Append(r.log, LogLine("WARN", "No posts found", <<>>))
                   ELSE r.log
    /\ pc' = "cleanup"
    /\ UNCHANGED <<exists, dir, run, page, pages, pointer, sitemap, rss, faults, prev>>

RECURSIVE RemoveWarnings(_)
RemoveWarnings(failed) ==
    IF failed = {} THEN <<>>
    ELSE LET k == CHOOSE x \in failed : \A y \in failed : x <= y IN
         <<LogLine("WARN", "Could not remove", DecStr(k))>> \o RemoveWarnings(failed \ {k})

\* cleanup_old_index_files with a pattern that matches no file
CleanupMatchesNothing(failed) ==
    /\ pages' = pages
    /\ log' = log
    /\ faults' = faults

\* cleanup_old_index_files(): every posts-index-page-*.json is removed,
\* except those whose os.remove raises (failed)
cleanup_old_index_files(failed) ==
    /\ pages' = [k \in failed |-> pages[k]]
    /\ log' = log \o RemoveWarnings(failed)
    /\ faults' = faults + Cardinality(failed)

Cleanup ==
    /\ pc = "cleanup"
    /\ \E failed \in SUBSET (DOMAIN pages) :
         /\ Cardinality(failed) <= MaxFaults - faults
         /\ cleanup_old_index_files(failed)
    /\ pc' = "pages"
    /\ page' = 1
    /\ UNCHANGED <<exists, dir, run, posts, metas, pointer, sitemap, rss, prev>>

EmptyPage == [page |-> 0, per_page |-> 0, total_posts |-> 0, total_pages |-> 0, posts |-> <<>>]

\* One iteration of "for page in range(1, total_pages + 1)"
WritePage ==
    /\ pc = "pages"
    /\ page <= TotalPages(Len(posts))
    /\ \E outcome \in Outcomes :
         \/ /\ outcome = "ok"
            /\ pages' = Put(pages, page, File(PageOutput(posts, page)))
            /\ log' = Append(log, LogLine("INFO", "Wrote page", DecStr(page)))
            /\ page' = page + 1
            /\ UNCHANGED <<pc, faults>>
         \/ /\ outcome = "open"
            /\ pc' = "aborted"
            /\ faults' = faults + 1
            /\ UNCHANGED <<pages, log, page>>
         \/ /\ outcome = "write"
            /\ pages' = Put(pages, page, Truncated(EmptyPage))
            /\ pc' = "aborted"
            /\ faults' = faults + 1
            /\ UNCHANGED <<log, page>>
    /\ UNCHANGED <<exists, dir, run, posts, metas, pointer, sitemap, rss, prev>>

EmptyMain == [page |-> 0, per_page |-> 0, total_posts |-> 0, total_pages |-> 0]

\* WritePointer placed before the loop over the pages
WritePointerBeforePages ==
    /\ pc = "pages"
    /\ page = 1
    /\ pointer' = <<File(MainOutput(posts))>>
    /\ log' = Append(log, LogLine("INFO", "Wrote posts-index.json", <<>>))
    /\ pc' = "sitemap"
    /\ UNCHANGED <<exists, dir, run, posts, metas, page, pages, sitemap, rss, prev, faults>>

\* "Write main index pointer", after the loop
WritePointer ==
    /\ pc = "pages"
    /\ page > TotalPages(Len(posts))
    /\ \E outcome \in Outcomes :
         \/ /\ outcome = "ok"
            /\ pointer' = <<File(MainOutput(posts))>>
            /\ log' = Append(log, LogLine("INFO", "Wrote posts-index.json", <<>>))
            /\ pc' = "sitemap"
            /\ UNCHANGED faults
         \/ /\ outcome = "open"
            /\ pc' = "aborted"
            /\ faults' = faults + 1
            /\ UNCHANGED <<pointer, log>>
         \/ /\ outcome = "write"
            /\ pointer' = <<Truncated(EmptyMain)>>
            /\ pc' = "aborted"
            /\ faults' = faults + 1
            /\ UNCHANGED log
    /\ UNCHANGED <<exists, dir, run, posts, metas, page, pages, sitemap, rss, prev>>

WriteSitemap ==
    /\ pc = "sitemap"
    /\ \E outcome \in Outcomes :
         \/ /\ outcome = "ok"
            /\ sitemap' = <<File(SitemapOutput(posts))>>
            /\ log' = Append(log, LogLine("INFO", "Wrote sitemap.xml", <<>>))
            /\ pc' = "rss"
            /\ UNCHANGED faults
         \/ /\ outcome = "open"
            /\ pc' = "aborted"
            /\ faults' = faults + 1
            /\ UNCHANGED <<sitemap, log>>
         \/ /\ outcome = "write"
            /\ sitemap' = <<Truncated(<<>>)>>
            /\ pc' = "aborted"
            /\ faults' = faults + 1
            /\ UNCHANGED log
    /\ UNCHANGED <<exists, dir, run, posts, metas, page, pages, pointer, rss, prev>>

\* write_rss, then main's closing lines; datetime.utcnow() is the run's number
WriteRss ==
    /\ pc = "rss"
    /\ \E outcome \in Outcomes :
         \/ /\ outcome = "ok"
            /\ rss' = <<File(RssOutput(posts, run))>>
            /\ log' = log \o << LogLine("INFO", "Wrote rss.xml", <<>>),
                                LogLine("INFO", "Generation complete", DecStr(Len(posts))) >>
            /\ pc' = "done"
            /\ UNCHANGED faults
         \/ /\ outcome = "open"
            /\ pc' = "aborted"
            /\ faults' = faults + 1
            /\ UNCHANGED <<rss, log>>
         \/ /\ outcome = "write"
            /\ rss' = <<Truncated(RssOutput(<<>>, run))>>
            /\ pc' = "aborted"
            /\ faults' = faults + 1
            /\ UNCHANGED log
    /\ UNCHANGED <<exists, dir, run, posts, metas, page, pages, pointer, sitemap, prev>>

(***************************************************************************)
(* The environment between two runs: the directory is left as it is, or    *)
(* loses an entry, or is removed altogether.                               *)
(***************************************************************************)
Removable(d) == IF Len(d) <= MaxShuffle THEN 1..Len(d) ELSE {Len(d)}

RemoveAt(d, i) == SubSeq(d, 1, i - 1) \o SubSeq(d, i + 1, Len(d))

NextDirs ==
    {<<exists, dir>>, <<FALSE, <<>>>>} \cup {<<TRUE, RemoveAt(dir, i)>> : i \in Removable(dir)}

NextRun ==
    /\ pc \in {"done", "aborted"}
    /\ run < MaxRuns
    /\ \E nd \in NextDirs : exists' = nd[1] /\ dir' = nd[2]
    /\ prev' = [done |-> pc = "done", exists |-> exists, dir |-> dir,
                pages |-> DOMAIN pages, pointer |-> pointer, sitemap |-> sitemap,
                faults |-> faults]
    /\ run' = run + 1
    /\ pc' = "start"
    /\ posts' = <<>>
    /\ metas' = EmptyDict
    /\ log' = <<>>
    /\ page' = 1
    /\ UNCHANGED <<pages, pointer, sitemap, rss, faults>>

Next ==
    \/ Gather
    \/ Cleanup
    \/ WritePage
    \/ WritePointer
    \/ WriteSitemap
    \/ WriteRss
    \/ NextRun

Spec == Init /\ [][Next]_vars

(***************************************************************************)
(* Properties.                                                             *)
(***************************************************************************)
Gathered == pc # "start"

\* total_pages of the run in progress, once the posts are gathered
CurPages == TotalPages(Len(posts))

Logged(level, msg, arg) == \E i \in DOMAIN log : log[i] = LogLine(level, msg, arg)

RemoveFailed == {k \in DOMAIN pages : Logged("WARN", "Could not remove", DecStr(k))}

\* write_paginated_indexes has returned in this run
IndexWritten == pc \in {"sitemap", "rss", "done"}

(* C1, as stated: after a run of main() that completes with total_pages = P, *)
(* the page artifacts on disk are exactly those numbered 1..P; no page of    *)
(* an earlier run with a number above P is left.                             *)
C1_StalePagesGone == pc = "done" => DOMAIN pages = 1..CurPages

(* C1, amended: after a run that completes with total_pages = P, the page    *)
(* artifacts on disk are those numbered 1..P and those whose removal failed  *)
(* in this run (each logged as a warning); the pages 1..P are this run's.    *)
C1_StalePagesGoneUnlessRemoveFailed ==
    pc = "done" =>
        /\ DOMAIN pages = (1..CurPages) \cup RemoveFailed
        /\ \A k \in 1..CurPages : pages[k].by = run /\ pages[k].ok

\* a later run has completed with fewer pages than the run before left,
\* and the pages above P are gone
C1_Witness ==
    /\ pc = "done"
    /\ run > 1
    /\ \E k \in prev.pages : k > CurPages /\ k \notin DOMAIN pages

\* a is a later calendar day than b (both accepted by strptime)
LaterDay(a, b) ==
    LET x == Strptime(a)
        y == Strptime(b)
    IN \/ x[1] > y[1]
       \/ x[1] = y[1] /\ x[2] > y[2]
       \/ x[1] = y[1] /\ x[2] = y[2] /\ x[3] > y[3]

(* C2: in the list gather_posts returns, a post with a later date comes      *)
(* before every post with an earlier date.                                   *)
C2_SortedNewestFirst ==
    Gathered =>
        \A i, j \in DOMAIN posts : LaterDay(posts[i].date, posts[j].date) => i < j

\* a declaration whose two attributes are separated by whitespace
Spaced(t) == t.sep # <<>> /\ \A i \in DOMAIN t.sep : IsSpace(t.sep[i])

Primaries(html, name) ==
    {i \in DOMAIN html : html[i].order = "nc" /\ Spaced(html[i]) /\ Lower(html[i].name) = name}

(* C3: for every file read, each metadata declaration, in either attribute   *)
(* order, puts lowercase(N) |-> C in the mapping returned, unless a          *)
(* declaration in the primary order (name= first) gives that name a value.   *)
C3_BothOrdersRecognized ==
    Gathered =>
        \A k \in DOMAIN dir :
            dir[k].name \in DOMAIN metas =>
                \A i \in DOMAIN dir[k].html :
                    LET t == dir[k].html[i]
                        m == metas[dir[k].name]
                        prim == Primaries(dir[k].html, Lower(t.name))
                    IN Spaced(t) =>
                        /\ Lower(t.name) \in DOMAIN m
                        /\ IF prim = {}
                           THEN m[Lower(t.name)] = Strip(t.content)
                           ELSE \E j \in prim : m[Lower(t.name)] = Strip(dir[k].html[j].content)

\* the post directories (entries that are directories)
PostDirs == {k \in DOMAIN dir : dir[k].isdir}

\* the post directory has a post-date that strptime accepts, according to the
\* mapping read for it
HasValidDate(k) ==
    /\ dir[k].name \in DOMAIN metas
    /\ Strptime(GetOr(metas[dir[k].name], "post-date", <<>>)) # <<>>

Included(k) == \E i \in DOMAIN posts : posts[i].slug = dir[k].name

\* gather_posts printed a warning that names the post directory (or its slug)
Warned(k) ==
    \E i \in DOMAIN log :
        /\ log[i].level = "WARN"
        /\ log[i].msg \in {"No index.html found", "missing post-date", "invalid date format"}
        /\ log[i].arg = dir[k].name

ErrorLogged(k) == \E i \in DOMAIN log : log[i].level = "ERROR" /\ log[i].arg = dir[k].name

(* C4, as stated: a post directory without a valid post-date (also when its  *)
(* index.html is missing or unreadable) is left out, a warning and no error  *)
(* is logged for it, and all the other directories are processed.            *)
C4_SkippedWithWarningNoError ==
    Gathered /\ exists =>
        /\ \A k \in PostDirs :
              ~HasValidDate(k) => ~Included(k) /\ Warned(k) /\ ~ErrorLogged(k)
        /\ \A k \in PostDirs : HasValidDate(k) => Included(k)
        /\ Len(posts) = Cardinality({k \in PostDirs : HasValidDate(k)})

(* C4, amended: a post directory without a valid post-date (also when its    *)
(* index.html is missing or unreadable) is left out and a warning is logged  *)
(* for it; an error line is logged as well exactly when index.html exists    *)
(* and cannot be read; gather_posts does not raise and all the other         *)
(* directories are processed.                                                *)
C4_SkippedWithWarning ==
    Gathered /\ exists =>
        /\ \A k \in PostDirs :
              ~HasValidDate(k) =>
                  /\ ~Included(k)
                  /\ Warned(k)
                  /\ ErrorLogged(k) <=> (dir[k].hasindex /\ ~dir[k].readable)
        /\ \A k \in PostDirs : HasValidDate(k) => Included(k) /\ ~Warned(k) /\ ~ErrorLogged(k)
        /\ Len(posts) = Cardinality({k \in PostDirs : HasValidDate(k)})

\* a directory with a skipped post (its index.html unreadable) and a kept one
C4_Witness ==
    /\ Gathered
    /\ \E k \in PostDirs : ~HasValidDate(k) /\ ErrorLogged(k)
    /\ \E k \in PostDirs : HasValidDate(k) /\ Included(k)

RECURSIVE PagePostCount(_)
PagePostCount(n) == IF n = 0 THEN 0 ELSE PagePostCount(n - 1) + Len(pages[n].data.posts)

(* C5: once write_paginated_indexes has returned for n posts, the pointer's  *)
(* total_pages is max(1, ceil(n / 20)), exactly that many page artifacts     *)
(* were written by the run (one empty page when n = 0), every page and the   *)
(* pointer give total_posts = n and the same total_pages, and the post       *)
(* counts of the pages add up to n.                                          *)
C5_PageCount ==
    IndexWritten =>
        LET n == Len(posts)
            P == pointer[1].data.total_pages
        IN /\ pointer[1].data.total_posts = n
           /\ P >= 1
           /\ P * PER_PAGE >= n
           /\ P > 1 => (P - 1) * PER_PAGE < n
           /\ {k \in DOMAIN pages : pages[k].by = run} = 1..P
           /\ \A k \in 1..P :
                 /\ pages[k].ok
                 /\ pages[k].data.total_posts = n
                 /\ pages[k].data.total_pages = P
           /\ PagePostCount(P) = n

\* three pages written, the last one not full
C5_Witness == pc = "done" /\ Len(posts) > 2 * PER_PAGE /\ Len(posts) % PER_PAGE # 0

RECURSIVE PagesConcat(_)
PagesConcat(n) == IF n = 0 THEN <<>> ELSE PagesConcat(n - 1) \o pages[n].data.posts

(* C6: page N holds the records of the sorted list at offsets                *)
(* (N-1)*page_size up to N*page_size (exclusive), in the same order; the     *)
(* pages in page order make up the sorted list, and every page but the last  *)
(* holds exactly page_size records.                                          *)
C6_PageSlices ==
    IndexWritten =>
        /\ \A N \in 1..CurPages :
              LET recs == pages[N].data.posts IN
              /\ pages[N].data.page = N
              /\ N < CurPages => Len(recs) = PER_PAGE
              /\ Len(recs) <= PER_PAGE
              /\ \A i \in DOMAIN recs :
                    /\ (N - 1) * PER_PAGE + i <= Len(posts)
                    /\ recs[i] = posts[(N - 1) * PER_PAGE + i]
        /\ PagesConcat(CurPages) = posts

\* three pages, the last one not full
C6_Witness ==
    /\ pc = "done"
    /\ CurPages > 2
    /\ Len(pages[CurPages].data.posts) \in 1..(PER_PAGE - 1)

(* C7: a second run of main() on an unchanged posts directory, after a first *)
(* run that completed, leaves the same posts-index.json and the same         *)
(* sitemap.xml, the order of the post entries included.                      *)
C7_Idempotent ==
    (pc = "done" /\ run > 1 /\ prev.done /\ prev.exists = exists /\ prev.dir = dir) =>
        /\ pointer[1].data = prev.pointer[1].data
        /\ sitemap[1].data = prev.sitemap[1].data

(* C8: the sitemap written for n posts has 5 + n entries, the 5 static pages *)
(* first in the order they are declared, then one entry per post in the      *)
(* order of the list; the RSS feed has min(n, 50) items, for the first       *)
(* min(n, 50) posts of the list.                                             *)
C8_FeedCounts ==
    /\ pc \in {"rss", "done"} =>
          LET urls == sitemap[1].data IN
          /\ sitemap[1].ok /\ sitemap[1].by = run
          /\ Len(urls) = 5 + Len(posts)
          /\ << urls[1].loc[2], urls[2].loc[2], urls[3].loc[2], urls[4].loc[2], urls[5].loc[2] >>
                = << "/", "/blog/", "/about.html", "/contact.html", "/ai-content-policy.html" >>
          /\ \A i \in DOMAIN posts : urls[5 + i].loc = <<SITE_URL>> \o posts[i].url
    /\ pc = "done" =>
          LET items == rss[1].data.items IN
          /\ rss[1].ok /\ rss[1].by = run
          /\ Len(items) = (IF Len(posts) <= 50 THEN Len(posts) ELSE 50)
          /\ \A i \in DOMAIN items : items[i].link = <<SITE_URL>> \o posts[i].url

\* more posts than the feed takes
C8_Witness == pc = "done" /\ Len(posts) > RSS_LIMIT

(* C9: without a posts directory, gather_posts logs a warning and returns an *)
(* empty list without raising, and main goes on through cleanup and the      *)
(* three writers (it is aborted only by a failing write of this run): it     *)
(* ends with an empty page 1, a pointer with total_posts 0 and total_pages   *)
(* 1, a sitemap of the static entries only, and an RSS feed without items.   *)
C9_AbsentRoot ==
    ~exists =>
        /\ Gathered =>
              /\ posts = <<>>
              /\ Logged("WARN", "Posts directory not found", <<>>)
              /\ \A i \in DOMAIN log : log[i].level # "ERROR"
        /\ pc = "aborted" => faults > prev.faults
        /\ pc = "done" =>
              /\ 1 \in DOMAIN pages
              /\ pages[1].by = run /\ pages[1].ok
              /\ pages[1].data.posts = <<>>
              /\ {k \in DOMAIN pages : pages[k].by = run} = {1}
              /\ pointer[1].by = run /\ pointer[1].ok
              /\ pointer[1].data.total_posts = 0
              /\ pointer[1].data.total_pages = 1
              /\ sitemap[1].by = run /\ Len(sitemap[1].data) = 5
              /\ rss[1].by = run /\ rss[1].data.items = <<>>

\* the directory was there for the first run and is gone for the second
C9_Witness == ~exists /\ pc = "done" /\ run > 1 /\ prev.exists /\ prev.pages # {}

(* C10, as stated: whenever posts-index.json holds the total_pages value P   *)
(* of the run in progress, the page artifacts 1..P are on disk and were      *)
(* written by that run.                                                      *)
C10_PointerValueImpliesPages ==
    (Gathered /\ pointer # <<>> /\ pointer[1].ok /\ pointer[1].data.total_pages = CurPages) =>
        \A k \in 1..CurPages : k \in DOMAIN pages /\ pages[k].by = run

(* C10, amended: whenever posts-index.json was written by the run in         *)
(* progress (also when that run was then aborted by a write failure), the    *)
(* cleanup is over and the page artifacts 1..P of that run are all on disk,  *)
(* written by that run.                                                      *)
C10_PointerAfterPages ==
    (pointer # <<>> /\ pointer[1].by = run) =>
        /\ pc \notin {"start", "cleanup"}
        /\ \A k \in 1..CurPages : k \in DOMAIN pages /\ pages[k].by = run /\ pages[k].ok

\* the run wrote the pointer for two pages or more and was aborted afterwards
C10_Witness ==
    /\ pc = "aborted"
    /\ pointer # <<>> /\ pointer[1].by = run /\ pointer[1].ok
    /\ CurPages > 1
====
